---- MODULE Spec2Model ----
(***************************************************************************)
(* Act (src/index.js): an incremental reconciler in the style of didact.   *)
(*                                                                         *)
(* The fibers and the host (DOM) nodes live in two arenas, `fibers` and    *)
(* `nodes`; a reference is an index into its arena and Null (0) stands for *)
(* null/undefined.  The module-level variables of index.js (lines 188-191  *)
(* and 228-229) are variables of the same name.  One action models one     *)
(* entry point: a call of render(), a call of a setState closure, one      *)
(* invocation of the idle callback workLoop.                               *)
(*                                                                         *)
(* A fiber's `props.children` is kept in the field `children`, apart from  *)
(* the other props: updateDom never looks at the key 'children'            *)
(* (isProperty, line 99).                                                  *)
(***************************************************************************)
EXTENDS Integers, Sequences, FiniteSets, TLC

\* Number of render() and setState calls in a behaviour.
MaxCalls == 3
\* Largest time an idle slice has left when workLoop is called, counted in
\* units of work: deadline.timeRemaining() falls by one with every unit.
MaxBudget == 2

Null == 0

\* The host node of `container` (document.getElementById('root')).
Container == 1

(***************************************************************************)
(* Elements (createElement, createTextElement)                             *)
(***************************************************************************)
NoProps == [k \in {} |-> ""]

createTextElement(text) ==
    [type |-> "TEXT_ELEMENT", props |-> [nodeValue |-> text], children |-> <<>>]

createElement(type, props, children) ==
    [type |-> type, props |-> props, children |-> children]

\* fiber.type instanceof Function
ComponentTypes == {"Counter"}

isFunctionComponent(type) == type \in ComponentTypes

\* The initial values a render function passes to its useState calls, in call order.
HookInitials(type) == IF type = "Counter" THEN <<0, 5>> ELSE <<>>

\* The element a render function returns, given the states useState returned to
\* it.  The listener is a closure created by this very call: its identity is
\* the fiber being rendered, and it calls the setState of that fiber's hook 1.
RenderFunction(type, states, fid) ==
    createElement("span",
                  [id |-> ToString(states[2]), onClick |-> fid],
                  <<createTextElement(ToString(states[1]))>>)

\* The update functions handed to setState.
Actions == {"inc", "triple"}

\* The setState calls made: the hook's index and the update function.
Updates == {<<1, "inc">>, <<1, "triple">>, <<2, "inc">>}

ApplyAction(a, n) == IF a = "inc" THEN n + 1 ELSE 3 * n

\* The element trees handed to render().
SpanEl(i) == createElement("span", [id |-> i], <<>>)

ElemA == createElement("div", NoProps, <<createTextElement("A")>>)
ElemB == createElement("div", NoProps, <<createTextElement("B")>>)
ElemXY == createElement("div", NoProps, <<createTextElement("A"), SpanEl("s1")>>)
ElemY == createElement("div", NoProps, <<SpanEl("s1")>>)
ElemL2 == createElement("div", NoProps, <<SpanEl("s1"), SpanEl("s2")>>)
ElemL3 == createElement("div", NoProps, <<SpanEl("s0"), SpanEl("s1"), SpanEl("s2")>>)
ElemC == createElement("div", NoProps,
                       <<createElement("Counter", NoProps, <<>>), SpanEl("s1")>>)

Elements == {ElemA, ElemB, ElemXY, ElemY, ElemL2, ElemL3, ElemC}

(***************************************************************************)
(* State                                                                   *)
(***************************************************************************)
VARIABLES
    fibers,          \* arena of fibers
    nodes,           \* arena of host nodes
    nextUnitOfWork,
    currentRoot,
    wipRoot,
    deletions,
    wipFiber,
    hookIndex,
    crashed,         \* workLoop threw: it did not re-request the idle callback
    calls,           \* number of render() and setState calls so far
    processed,       \* history: the fibers performUnitOfWork has processed
    trace,           \* history: the fibers processed in the current render cycle, in order
    stray,           \* history: a setState not bound by the committed render was called
    ops,             \* history: the host operations of the current render cycle
    cycle,           \* history: how the current render cycle was started
    last             \* history: what the last step did

vars == <<fibers, nodes, nextUnitOfWork, currentRoot, wipRoot, deletions,
          wipFiber, hookIndex, crashed, calls, processed, trace, stray, ops, cycle, last>>

\* The part of the state the engine's functions read and write, as one record.
Heap == [fibers |-> fibers, nodes |-> nodes, deletions |-> deletions,
         wipFiber |-> wipFiber, hookIndex |-> hookIndex,
         processed |-> processed, trace |-> trace, ops |-> ops, phase |-> "render",
         threw |-> FALSE]

Fiber(type, props, children, dom, parent, alternate, effectTag) ==
    [type |-> type, props |-> props, children |-> children, dom |-> dom,
     parent |-> parent, child |-> Null, sibling |-> Null,
     alternate |-> alternate, effectTag |-> effectTag, hooks |-> <<>>]

HostNode(tag) ==
    [tag |-> tag, parent |-> Null, children |-> <<>>,
     attrs |-> NoProps, listeners |-> {}]

(***************************************************************************)
(* The host: what the DOM does on the calls the engine makes               *)
(***************************************************************************)
Op(h, name, a, b, key, val) ==
    [h EXCEPT !.ops = Append(@, [op |-> name, phase |-> h.phase, a |-> a, b |-> b,
                                 key |-> key, val |-> val])]

Without(seq, x) == SelectSeq(seq, LAMBDA y : y # x)

Detach(ns, child) ==
    IF ns[child].parent = Null THEN ns
    ELSE [ns EXCEPT ![ns[child].parent].children = Without(@, child),
                    ![child].parent = Null]

\* parent.appendChild(child): a node that has a parent is first taken out of it.
appendChild(h, parent, child) ==
    LET ns == Detach(h.nodes, child)
    IN Op([h EXCEPT !.nodes = [ns EXCEPT ![parent].children = Append(@, child),
                                         ![child].parent = parent]],
          "appendChild", parent, child, "", "")

\* parent.removeChild(child): throws NotFoundError unless child is a child of parent.
removeChild(h, parent, child) ==
    IF h.nodes[child].parent # parent
    THEN [Op(h, "removeChildThrew", parent, child, "", "") EXCEPT !.threw = TRUE]
    ELSE Op([h EXCEPT !.nodes = Detach(@, child)], "removeChild", parent, child, "", "")

\* dom[name] = value
SetProperty(h, dom, name, value) ==
    Op([h EXCEPT !.nodes[dom].attrs = [k \in DOMAIN @ \cup {name} |->
                                         IF k = name THEN value ELSE @[k]]],
       "set", dom, Null, name, value)

\* An event listener is the pair of its event type and its handler.
removeEventListener(h, dom, eventType, handler) ==
    Op([h EXCEPT !.nodes[dom].listeners = @ \ {<<eventType, handler>>}],
       "removeEventListener", dom, handler, eventType, "")

addEventListener(h, dom, eventType, handler) ==
    Op([h EXCEPT !.nodes[dom].listeners = @ \cup {<<eventType, handler>>}],
       "addEventListener", dom, handler, eventType, "")

(***************************************************************************)
(* updateDom, createDom                                                    *)
(***************************************************************************)
\* Object.keys of a props object, in the order the keys are written.
PropKeys == <<"id", "nodeValue", "onClick">>

KeysOf(props) == SelectSeq(PropKeys, LAMBDA k : k \in DOMAIN props)

\* key.startsWith('on')
isEvent(key) == key \in {"onClick"}

\* A faulty isProperty: nodeValue is not taken for a property.
isProperty_NoText(key) == key \notin {"children", "nodeValue"} /\ ~isEvent(key)

isProperty(key) == key # "children" /\ ~isEvent(key)

\* A faulty isNew: every key counts as changed.
isNew_Always(prev, next, key) == TRUE

\* prev[key] !== next[key]; a missing key reads as undefined.
isNew(prev, next, key) ==
    IF key \in DOMAIN prev /\ key \in DOMAIN next THEN prev[key] # next[key]
    ELSE key \in DOMAIN prev \/ key \in DOMAIN next

isGone(prev, next, key) == key \notin DOMAIN next

\* name.toLowerCase().substring(2)
EventType(name) == IF name = "onClick" THEN "click" ELSE name

RECURSIVE RemoveOldListeners(_, _, _, _, _)
RemoveOldListeners(h, dom, prev, next, keys) ==
    IF keys = <<>> THEN h
    ELSE LET name == Head(keys)
             h1 == IF isEvent(name) /\ (name \notin DOMAIN next \/ isNew(prev, next, name))
                   THEN removeEventListener(h, dom, EventType(name), prev[name])
                   ELSE h
         IN RemoveOldListeners(h1, dom, prev, next, Tail(keys))

RECURSIVE RemoveOldProperties(_, _, _, _, _)
RemoveOldProperties(h, dom, prev, next, keys) ==
    IF keys = <<>> THEN h
    ELSE LET name == Head(keys)
             h1 == IF isProperty(name) /\ isGone(prev, next, name)
                   THEN SetProperty(h, dom, name, "")
                   ELSE h
         IN RemoveOldProperties(h1, dom, prev, next, Tail(keys))

RECURSIVE SetNewProperties(_, _, _, _, _)
SetNewProperties(h, dom, prev, next, keys) ==
    IF keys = <<>> THEN h
    ELSE LET name == Head(keys)
             h1 == IF isProperty(name) /\ isNew(prev, next, name)
                   THEN SetProperty(h, dom, name, next[name])
                   ELSE h
         IN SetNewProperties(h1, dom, prev, next, Tail(keys))

RECURSIVE AddListeners(_, _, _, _, _)
AddListeners(h, dom, prev, next, keys) ==
    IF keys = <<>> THEN h
    ELSE LET name == Head(keys)
             h1 == IF isEvent(name) /\ isNew(prev, next, name)
                   THEN addEventListener(h, dom, EventType(name), next[name])
                   ELSE h
         IN AddListeners(h1, dom, prev, next, Tail(keys))

updateDom(h, dom, prevProps, nextProps) ==
    LET h1 == RemoveOldListeners(h, dom, prevProps, nextProps, KeysOf(prevProps))
        h2 == RemoveOldProperties(h1, dom, prevProps, nextProps, KeysOf(prevProps))
        h3 == SetNewProperties(h2, dom, prevProps, nextProps, KeysOf(nextProps))
    IN AddListeners(h3, dom, prevProps, nextProps, KeysOf(nextProps))

\* Allocates the host node of fiber f and stores it in f.dom (line 272).
createDom(h, f) ==
    LET dom == Len(h.nodes) + 1
        h1 == Op([h EXCEPT !.nodes = Append(@, HostNode(h.fibers[f].type)),
                           !.fibers[f].dom = dom],
                 "create", dom, Null, "", "")
    IN updateDom(h1, dom, NoProps, h.fibers[f].props)

(***************************************************************************)
(* reconcileChildren                                                       *)
(***************************************************************************)
\* A faulty comparison: the fiber at the index is reused whatever its type.
sameType_AnyType(fs, oldFiber, hasElement, element) ==
    oldFiber # Null /\ hasElement

\* A faulty comparison: a fiber is reused only for an element with its props.
sameType_SameProps(fs, oldFiber, hasElement, element) ==
    /\ oldFiber # Null /\ hasElement
    /\ element.type = fs[oldFiber].type
    /\ element.props = fs[oldFiber].props

\* Line 286: oldFiber && element && element.type == oldFiber.type
sameType(fs, oldFiber, hasElement, element) ==
    oldFiber # Null /\ hasElement /\ element.type = fs[oldFiber].type

\* A faulty loop test: the loop ends with the elements.
MoreToReconcile_ElementsOnly(elements, index, oldFiber) == index <= Len(elements)

\* The loop test at line 282: index < elements.length || oldFiber != null.
MoreToReconcile(elements, index, oldFiber) ==
    index <= Len(elements) \/ oldFiber # Null

\* One iteration of the while loop at line 282 and the iterations after it.
\* `index` counts from 1, and hasElement says that elements[index] exists.
RECURSIVE ReconcileLoop(_, _, _, _, _, _)
ReconcileLoop(h, wf, elements, index, oldFiber, prevSibling) ==
    IF ~MoreToReconcile(elements, index, oldFiber) THEN h
    ELSE
      LET hasElement == index <= Len(elements)
          element == elements[index]
          old == h.fibers[oldFiber]
          same == sameType(h.fibers, oldFiber, hasElement, element)
          newFiber == IF ~hasElement THEN Null ELSE Len(h.fibers) + 1
          made == IF same
                  THEN Fiber(old.type, element.props, element.children, old.dom,
                             wf, oldFiber, "UPDATE")
                  ELSE Fiber(element.type, element.props, element.children, Null,
                             wf, Null, "PLACEMENT")
          f1 == IF hasElement THEN Append(h.fibers, made) ELSE h.fibers
          deleted == oldFiber # Null /\ ~same
          f2 == IF deleted THEN [f1 EXCEPT ![oldFiber].effectTag = "DELETION"] ELSE f1
          d2 == IF deleted THEN Append(h.deletions, oldFiber) ELSE h.deletions
          nextOld == IF oldFiber # Null THEN old.sibling ELSE Null
          f3 == IF index = 1 THEN [f2 EXCEPT ![wf].child = newFiber]
                ELSE IF hasElement THEN [f2 EXCEPT ![prevSibling].sibling = newFiber]
                ELSE f2
      IN ReconcileLoop([h EXCEPT !.fibers = f3, !.deletions = d2],
                       wf, elements, index + 1, nextOld, newFiber)

\* A faulty start: below the root, the walk of the old fibers starts at the
\* second one.
reconcileChildren_SkipFirst(h, wf, elements) ==
    LET alt == h.fibers[wf].alternate
        first == IF alt # Null THEN h.fibers[alt].child ELSE Null
        oldFiber == IF first # Null /\ h.fibers[wf].parent # Null
                    THEN h.fibers[first].sibling ELSE first
    IN ReconcileLoop(h, wf, elements, 1, oldFiber, Null)

reconcileChildren(h, wf, elements) ==
    LET alt == h.fibers[wf].alternate
        oldFiber == IF alt # Null THEN h.fibers[alt].child ELSE Null
    IN ReconcileLoop(h, wf, elements, 1, oldFiber, Null)

(***************************************************************************)
(* useState, updateFunctionComponent, updateHostComponent                  *)
(***************************************************************************)
\* A faulty fold: only the first queued function is applied.
ApplyQueue_FirstOnly(queue, state) ==
    IF queue = <<>> THEN state ELSE ApplyAction(Head(queue), state)

RECURSIVE ApplyQueue(_, _)
ApplyQueue(queue, state) ==
    IF queue = <<>> THEN state
    ELSE ApplyQueue(Tail(queue), ApplyAction(Head(queue), state))

\* A faulty lookup: every call reuses the first hook of the alternate.
OldHookIndex_First(h) ==
    LET alt == h.fibers[h.wipFiber].alternate
    IN IF alt # Null /\ 1 <= Len(h.fibers[alt].hooks) THEN 1 ELSE Null

\* The hook of the alternate that useState reuses (lines 240-243), or Null.
\* hookIndex counts from 0 as in the code; the arena's sequences count from 1.
OldHookIndex(h) ==
    LET alt == h.fibers[h.wipFiber].alternate
    IN IF alt # Null /\ h.hookIndex + 1 <= Len(h.fibers[alt].hooks)
       THEN h.hookIndex + 1 ELSE Null

\* A faulty useState: the new hook keeps the queue it has applied.
useState_KeepsQueue(h, initial) ==
    LET alt == h.fibers[h.wipFiber].alternate
        hasOld == OldHookIndex(h) # Null
        oldHook == h.fibers[alt].hooks[OldHookIndex(h)]
        state == IF hasOld THEN oldHook.state ELSE initial
        actions == IF hasOld THEN oldHook.queue ELSE <<>>
        hook == [state |-> ApplyQueue(actions, state), queue |-> actions]
    IN [h EXCEPT !.fibers[h.wipFiber].hooks = Append(@, hook),
                 !.hookIndex = @ + 1]

\* One call of useState(initial) while h.wipFiber is rendered: the hook is
\* pushed on wipFiber.hooks and hookIndex is advanced.
useState(h, initial) ==
    LET alt == h.fibers[h.wipFiber].alternate
        hasOld == OldHookIndex(h) # Null
        oldHook == h.fibers[alt].hooks[OldHookIndex(h)]
        state == IF hasOld THEN oldHook.state ELSE initial
        actions == IF hasOld THEN oldHook.queue ELSE <<>>
        hook == [state |-> ApplyQueue(actions, state), queue |-> <<>>]
    IN [h EXCEPT !.fibers[h.wipFiber].hooks = Append(@, hook),
                 !.hookIndex = @ + 1]

\* The useState calls of a render function, in call order.
RECURSIVE CallHooks(_, _)
CallHooks(h, initials) ==
    IF initials = <<>> THEN h
    ELSE CallHooks(useState(h, Head(initials)), Tail(initials))

\* The rest of the render function, after its useState calls: the states they
\* returned go into the element it returns.
ReturnElement(h, f) ==
    LET hooks == h.fibers[f].hooks
        states == [i \in DOMAIN hooks |-> hooks[i].state]
    IN reconcileChildren(h, f, <<RenderFunction(h.fibers[f].type, states, f)>>)

updateFunctionComponent(h, f) ==
    ReturnElement(CallHooks([h EXCEPT !.wipFiber = f, !.hookIndex = 0,
                                      !.fibers[f].hooks = <<>>],
                            HookInitials(h.fibers[f].type)),
                  f)

\* A faulty updateHostComponent: no host node is created.
updateHostComponent_NoDom(h, f) == reconcileChildren(h, f, h.fibers[f].children)

\* A faulty updateHostComponent: the host node is appended to the host node of
\* the parent at once, where the parent has one.
updateHostComponent_Appends(h, f) ==
    LET h1 == IF h.fibers[f].dom = Null THEN createDom(h, f) ELSE h
        parent == h.fibers[f].parent
        h2 == IF parent = Null \/ h.fibers[parent].dom = Null THEN h1
              ELSE appendChild(h1, h1.fibers[parent].dom, h1.fibers[f].dom)
    IN reconcileChildren(h2, f, h.fibers[f].children)

updateHostComponent(h, f) ==
    LET h1 == IF h.fibers[f].dom = Null THEN createDom(h, f) ELSE h
    IN reconcileChildren(h1, f, h.fibers[f].children)

(***************************************************************************)
(* performUnitOfWork                                                       *)
(***************************************************************************)
\* The loop at lines 219-225: the nearest fiber, from f upwards, with a sibling.
RECURSIVE NextSibling(_, _)
NextSibling(fs, f) ==
    IF f = Null THEN Null
    ELSE IF fs[f].sibling # Null THEN fs[f].sibling
    ELSE NextSibling(fs, fs[f].parent)

\* A faulty traversal: after a fiber without child the unit looks for the
\* fiber's own sibling only, and does not climb to the parents.
ReturnNext_NoAscent(h, f) ==
    [heap |-> [h EXCEPT !.processed = @ \cup {f}, !.trace = Append(@, f)],
     next |-> IF h.fibers[f].child # Null THEN h.fibers[f].child
              ELSE h.fibers[f].sibling]

\* A faulty traversal: the unit goes to the fiber's sibling before its child.
ReturnNext_SiblingFirst(h, f) ==
    [heap |-> [h EXCEPT !.processed = @ \cup {f}, !.trace = Append(@, f)],
     next |-> IF h.fibers[f].sibling # Null THEN h.fibers[f].sibling
              ELSE IF h.fibers[f].child # Null THEN h.fibers[f].child
              ELSE NextSibling(h.fibers, h.fibers[f].parent)]

\* Lines 216-225: the fiber the unit returns, given the heap the update left.
ReturnNext(h, f) ==
    [heap |-> [h EXCEPT !.processed = @ \cup {f}, !.trace = Append(@, f)],
     next |-> IF h.fibers[f].child # Null THEN h.fibers[f].child
              ELSE NextSibling(h.fibers, f)]

\* The heap after the unit, and the fiber the unit returns.
performUnitOfWork(h, f) ==
    ReturnNext(IF isFunctionComponent(h.fibers[f].type)
               THEN updateFunctionComponent(h, f)
               ELSE updateHostComponent(h, f),
               f)

(***************************************************************************)
(* commitRoot, commitWork, commitDeletion                                  *)
(***************************************************************************)
\* The loop at lines 150-153, started at a fiber's parent.
RECURSIVE DomParentFiber(_, _)
DomParentFiber(fs, f) ==
    IF fs[f].dom # Null THEN f ELSE DomParentFiber(fs, fs[f].parent)

\* Reading fiber.dom of an absent child throws a TypeError.
RECURSIVE commitDeletion(_, _, _)
commitDeletion(h, f, domParent) ==
    IF f = Null THEN [h EXCEPT !.threw = TRUE]
    ELSE IF h.fibers[f].dom # Null THEN removeChild(h, domParent, h.fibers[f].dom)
    ELSE commitDeletion(h, h.fibers[f].child, domParent)

\* An exception ends the whole commit: nothing after it runs.
RECURSIVE commitWork(_, _)
commitWork(h, f) ==
    IF f = Null \/ h.threw THEN h
    ELSE
      LET fiber == h.fibers[f]
          domParent == h.fibers[DomParentFiber(h.fibers, fiber.parent)].dom
          h1 == IF fiber.effectTag = "PLACEMENT" /\ fiber.dom # Null
                THEN appendChild(h, domParent, fiber.dom)
                ELSE IF fiber.effectTag = "UPDATE" /\ fiber.dom # Null
                THEN updateDom(h, fiber.dom, h.fibers[fiber.alternate].props, fiber.props)
                ELSE IF fiber.effectTag = "DELETION"
                THEN commitDeletion(h, f, domParent)
                ELSE h
          h2 == commitWork(h1, fiber.child)
      IN commitWork(h2, fiber.sibling)

\* deletions.forEach(commitWork)
RECURSIVE CommitDeletions(_, _)
CommitDeletions(h, ds) ==
    IF ds = <<>> THEN h ELSE CommitDeletions(commitWork(h, Head(ds)), Tail(ds))

\* Lines 139-140; the caller assigns currentRoot and wipRoot (lines 141-142)
\* when the result has not thrown.
CommitTree(h, root) == commitWork(h, h.fibers[root].child)

commitRoot(h, root) ==
    CommitTree(CommitDeletions([h EXCEPT !.phase = "commit"], h.deletions), root)

(***************************************************************************)
(* Walks of the fiber trees, used to state the properties                  *)
(***************************************************************************)
\* The fibers reachable from f over child and sibling links.
RECURSIVE Subtree(_, _)
Subtree(fs, f) ==
    IF f = Null THEN {}
    ELSE {f} \cup Subtree(fs, fs[f].child) \cup Subtree(fs, fs[f].sibling)

TreeOf(fs, root) == IF root = Null THEN {} ELSE {root} \cup Subtree(fs, fs[root].child)

\* A sibling chain as a sequence, from fiber f on.
RECURSIVE Chain(_, _)
Chain(fs, f) == IF f = Null THEN <<>> ELSE <<f>> \o Chain(fs, fs[f].sibling)

ChildSeq(fs, f) == Chain(fs, fs[f].child)

\* The host nodes of a sibling chain, looking through render-function fibers.
RECURSIVE HostList(_, _)
HostList(fs, f) ==
    IF f = Null THEN <<>>
    ELSE (IF fs[f].dom # Null THEN <<fs[f].dom>> ELSE HostList(fs, fs[f].child))
         \o HostList(fs, fs[f].sibling)

HostChildren(fs, f) == HostList(fs, fs[f].child)

Range(seq) == {seq[k] : k \in DOMAIN seq}

\* The root of the tree the current cycle builds or has committed.
ActiveRoot == IF wipRoot # Null THEN wipRoot ELSE currentRoot

\* No update waits in a hook of the committed tree.
NoPendingUpdate ==
    \A f \in TreeOf(fibers, currentRoot) :
        \A i \in DOMAIN fibers[f].hooks : fibers[f].hooks[i].queue = <<>>

\* render(element) re-renders the committed description, with no state change.
SameAsCommitted(element) ==
    /\ currentRoot # Null
    /\ fibers[currentRoot].children = <<element>>
    /\ NoPendingUpdate

(***************************************************************************)
(* The entry points                                                        *)
(***************************************************************************)
Init ==
    /\ fibers = <<>>
    /\ nodes = <<HostNode("root")>>
    /\ nextUnitOfWork = Null
    /\ currentRoot = Null
    /\ wipRoot = Null
    /\ deletions = <<>>
    /\ wipFiber = Null
    /\ hookIndex = Null
    /\ crashed = FALSE
    /\ calls = 0
    /\ processed = {}
    /\ trace = <<>>
    /\ stray = FALSE
    /\ ops = <<>>
    /\ cycle = [kind |-> "none", same |-> FALSE]
    /\ last = [act |-> "init", commit |-> "none", time |-> 0, units |-> 0]

\* render(element, container), lines 176-186.
Render(element) ==
    /\ calls < MaxCalls
    /\ fibers' = Append(fibers, Fiber("undefined", NoProps, <<element>>, Container,
                                      Null, currentRoot, "undefined"))
    /\ wipRoot' = Len(fibers) + 1
    /\ deletions' = <<>>
    /\ nextUnitOfWork' = wipRoot'
    /\ calls' = calls + 1
    /\ ops' = <<>>
    /\ trace' = <<>>
    /\ cycle' = [kind |-> "render", same |-> SameAsCommitted(element)]
    /\ last' = [act |-> "render", commit |-> "none", time |-> 0, units |-> 0]
    /\ UNCHANGED <<nodes, currentRoot, wipFiber, hookIndex, crashed, processed, stray>>

\* A call setState(action) of the closure that the i-th useState call of the
\* render of fiber f returned, lines 254-263.  Reading currentRoot.dom throws a
\* TypeError while nothing has been committed; the push has then happened.
SetState(f, i, action) ==
    /\ calls < MaxCalls
    /\ f \in processed
    /\ i \in 1..Len(fibers[f].hooks)
    /\ calls' = calls + 1
    /\ LET pushed == [fibers EXCEPT ![f].hooks[i].queue = Append(@, action)]
       IN IF currentRoot = Null
          THEN /\ fibers' = pushed
               /\ last' = [act |-> "setStateThrew", commit |-> "none",
                           time |-> 0, units |-> 0]
               /\ UNCHANGED <<wipRoot, nextUnitOfWork, deletions, ops, trace, cycle>>
          ELSE /\ fibers' = Append(pushed,
                                   Fiber("undefined", pushed[currentRoot].props,
                                         pushed[currentRoot].children,
                                         pushed[currentRoot].dom,
                                         Null, currentRoot, "undefined"))
               /\ wipRoot' = Len(fibers) + 1
               /\ nextUnitOfWork' = wipRoot'
               /\ deletions' = <<>>
               /\ ops' = <<>>
               /\ trace' = <<>>
               /\ cycle' = [kind |-> "setState", same |-> FALSE]
               /\ last' = [act |-> "setState", commit |-> "none", time |-> 0, units |-> 0]
    /\ stray' = (stray \/ f \notin TreeOf(fibers, currentRoot))
    /\ UNCHANGED <<nodes, currentRoot, wipFiber, hookIndex, crashed, processed>>

\* The while loop of workLoop, lines 195-198, in a slice that has `time` left
\* when it starts.  shouldYield starts false: the deadline is read only after a
\* unit (line 197), so a slice performs its first unit whatever time is left.
RECURSIVE RunUnits(_, _)
RECURSIVE AfterUnit(_, _)
RunUnits(r, time) ==
    IF r.next = Null THEN r
    ELSE AfterUnit(performUnitOfWork(r.heap, r.next), time - 1)

\* A faulty deadline test: the loop yields one unit late.
AfterUnit_OneLate(r, timeRemaining) ==
    IF timeRemaining < 0 THEN r ELSE RunUnits(r, timeRemaining)

\* Line 197: shouldYield = deadline.timeRemaining() < 1, and the loop test.
AfterUnit(r, timeRemaining) ==
    IF timeRemaining < 1 THEN r ELSE RunUnits(r, timeRemaining)

\* Lines 200-202, given what the loop left.
CommitIfDone(r, root) ==
    IF r.next = Null /\ root # Null
    THEN [heap |-> commitRoot(r.heap, root), next |-> r.next, commits |-> TRUE]
    ELSE [heap |-> r.heap, next |-> r.next, commits |-> FALSE]

\* The assignments one invocation of workLoop makes, in a slice that had
\* `time` left when it started.
Assign(r, time) ==
    /\ fibers' = r.heap.fibers
    /\ nodes' = r.heap.nodes
    /\ deletions' = r.heap.deletions
    /\ wipFiber' = r.heap.wipFiber
    /\ hookIndex' = r.heap.hookIndex
    /\ processed' = r.heap.processed
    /\ trace' = r.heap.trace
    /\ ops' = r.heap.ops
    /\ nextUnitOfWork' = r.next
    /\ crashed' = r.heap.threw
    /\ currentRoot' = IF r.commits /\ ~r.heap.threw THEN wipRoot ELSE currentRoot
    /\ wipRoot' = IF r.commits /\ ~r.heap.threw THEN Null ELSE wipRoot
    /\ last' = [act |-> "workLoop",
                commit |-> IF ~r.commits THEN "none"
                           ELSE IF r.heap.threw THEN "threw" ELSE "done",
                time |-> time,
                units |-> Len(r.heap.trace) - Len(trace)]

\* workLoop has something to do and has not thrown.
WorkPending == ~crashed /\ (nextUnitOfWork # Null \/ wipRoot # Null)

\* One invocation of workLoop, lines 193-205.  With nothing to do it changes
\* nothing, which is a stuttering step.
WorkLoop(time) ==
    /\ WorkPending
    /\ Assign(CommitIfDone(RunUnits([heap |-> Heap, next |-> nextUnitOfWork], time),
                           wipRoot),
              time)
    /\ UNCHANGED <<calls, cycle, stray>>

Next ==
    \/ \E element \in Elements : Render(element)
    \/ \E f \in 1..Len(fibers), u \in Updates : SetState(f, u[1], u[2])
    \/ \E time \in 0..MaxBudget : WorkLoop(time)

Spec == Init /\ [][Next]_vars

\* A step of workLoop, told by what it leaves in `last`: under Next the steps
\* taken with WorkPending that leave act = "workLoop" are the steps of
\* WorkLoop, and WorkLoop is enabled exactly when WorkPending holds.
Slice ==
    /\ WorkPending
    /\ last' \in [act : {"workLoop"}, commit : {"none", "done", "threw"},
                  time : 0..MaxBudget, units : 0..MaxBudget]

\* workLoop ends with requestIdleCallback(workLoop) (line 204): as long as it
\* returns, the host calls it again.  Every call with work pending performs a
\* unit or commits, and render() and setState are called finitely often, so
\* the fairness amounts to this: work does not stay pending for ever.
FairSpec == Spec /\ WF_last(Slice)

(***************************************************************************)
(* Properties                                                              *)
(***************************************************************************)
Committed == last.commit = "done"

\* The host node of host fiber f has the fiber's tag and, as children, the host
\* nodes of the fiber's children, in their order.
HostAgrees(f) ==
    /\ nodes[fibers[f].dom].children = HostChildren(fibers, f)
    /\ f # currentRoot => nodes[fibers[f].dom].tag = fibers[f].type

\* C1: after every commit, the attached host tree agrees with the rendered
\* description: the host node of every host-tag element has exactly the host
\* nodes of its child elements as children, with their tags and in their order.
C1_HostTreeAgrees ==
    Committed =>
        \A f \in TreeOf(fibers, currentRoot) :
            ~isFunctionComponent(fibers[f].type) => HostAgrees(f)

\* The tags of the fibers of the cycle's tree, the root apart.
EffectTags == {fibers[f].effectTag : f \in TreeOf(fibers, ActiveRoot) \ {ActiveRoot}}

\* C2 as stated: rendering the committed Element tree again, with no state
\* change in between, tags every fiber UPDATE, deletes nothing and performs no
\* host operation at all.
C2_NoHostMutation ==
    cycle.same => /\ EffectTags \subseteq {"UPDATE"}
                  /\ deletions = <<>>
                  /\ ops = <<>>

\* A listener operation on a handler that a render function creates anew on
\* each call: the unbinding of the closure of the committed render, or the
\* binding of the closure of this render.
RebindsClosure(o) ==
    /\ o.phase = "commit"
    /\ o.b # Null
    /\ isFunctionComponent(fibers[o.b].type)
    /\ \/ o.op = "removeEventListener" /\ o.b \in TreeOf(fibers, fibers[ActiveRoot].alternate)
       \/ o.op = "addEventListener" /\ o.b \in TreeOf(fibers, ActiveRoot)

\* C2, amended: rendering the committed Element tree again, with no state
\* change in between, tags every fiber UPDATE, deletes nothing, and creates no
\* node, appends none, removes none and writes no property; the only host
\* operations are the unbinding and rebinding of listeners that a render
\* function creates anew on each call.
C2_OnlyClosuresRebound ==
    cycle.same => /\ EffectTags \subseteq {"UPDATE"}
                  /\ deletions = <<>>
                  /\ \A k \in DOMAIN ops : RebindsClosure(ops[k])

\* A second render of the same description has been committed, and it had
\* host fibers with properties and a render function.
C2_Witness ==
    /\ cycle.same
    /\ Committed
    /\ \E f \in TreeOf(fibers, currentRoot) : isFunctionComponent(fibers[f].type)
    /\ \E f \in TreeOf(fibers, currentRoot) : "id" \in DOMAIN fibers[f].props

\* The update functions of a queue applied in order, first to last.
RECURSIVE FoldInOrder(_, _)
FoldInOrder(queue, state) ==
    IF queue = <<>> THEN state
    ELSE FoldInOrder(Tail(queue), IF Head(queue) = "inc" THEN state + 1 ELSE 3 * state)

\* The render-function fibers of the committed tree that continue a fiber of
\* the tree committed before.
Continued ==
    {f \in TreeOf(fibers, currentRoot) :
        isFunctionComponent(fibers[f].type) /\ fibers[f].alternate # Null}

\* C3: after a commit, the state of every hook slot is the state the slot had
\* in the tree committed before, folded through the update functions enqueued
\* on that slot since, in the order they were enqueued.
C3_UpdatesFoldedInOrder ==
    Committed =>
        \A f \in Continued :
            LET old == fibers[fibers[f].alternate].hooks
            IN \A i \in DOMAIN old :
                /\ i \in DOMAIN fibers[f].hooks
                /\ fibers[f].hooks[i].state = FoldInOrder(old[i].queue, old[i].state)

\* Initial 0 with n => n + 1 enqueued twice has given 2 after one commit, and
\* two different functions have been folded where their order matters.
C3_Witness ==
    /\ Committed
    /\ \E f \in Continued :
          /\ fibers[fibers[f].alternate].hooks[1] = [state |-> 0, queue |-> <<"inc", "inc">>]
          /\ fibers[f].hooks[1].state = 2

\* The render-function fibers that have been rendered, in the committed tree
\* and in the tree of the current cycle.
Rendered ==
    {f \in (TreeOf(fibers, currentRoot) \cup TreeOf(fibers, wipRoot)) \cap processed :
        isFunctionComponent(fibers[f].type)}

\* C4: a rendered render-function fiber has one slot per useState call, in call
\* order; without alternate slot i holds the i-th initial value, and with an
\* alternate it continues slot i of the alternate: a slot of the alternate with
\* no update queued has the same state in the fiber.
C4_HookOrdering ==
    \A f \in Rendered :
        LET initials == HookInitials(fibers[f].type)
            alt == fibers[f].alternate
        IN /\ Len(fibers[f].hooks) = Len(initials)
           /\ \A i \in DOMAIN initials :
                IF alt = Null
                THEN fibers[f].hooks[i].state = initials[i]
                ELSE fibers[alt].hooks[i].queue = <<>> =>
                        fibers[f].hooks[i].state = fibers[alt].hooks[i].state

\* A fiber rendered for the third time: its first slot has been updated, and
\* its second slot, never updated, still holds its initial value.
C4_Witness ==
    \E f \in Rendered :
        /\ fibers[f].alternate # Null
        /\ fibers[fibers[f].alternate].alternate # Null
        /\ fibers[f].hooks[1].state # HookInitials(fibers[f].type)[1]
        /\ fibers[f].hooks[2].state = HookInitials(fibers[f].type)[2]
        /\ fibers[fibers[f].alternate].hooks[2].queue = <<>>

\* The pairs <<parent, index>> of the cycle's tree at which reconcileChildren
\* met a new element and an old fiber.
Met ==
    {pk \in TreeOf(fibers, ActiveRoot) \X (1..3) :
        /\ fibers[pk[1]].alternate # Null
        /\ pk[2] <= Len(ChildSeq(fibers, pk[1]))
        /\ pk[2] <= Len(ChildSeq(fibers, fibers[pk[1]].alternate))}

\* The elements fiber f was reconciled with: the element its render function
\* returned, or its children.
ElementsOf(f) ==
    IF isFunctionComponent(fibers[f].type)
    THEN <<RenderFunction(fibers[f].type,
                          [i \in DOMAIN fibers[f].hooks |-> fibers[f].hooks[i].state], f)>>
    ELSE fibers[f].children

ElementAt(pk) == ElementsOf(pk[1])[pk[2]]
NewAt(pk) == ChildSeq(fibers, pk[1])[pk[2]]
OldAt(pk) == ChildSeq(fibers, fibers[pk[1]].alternate)[pk[2]]

\* C5: where reconcileChildren met, at the same index, a new element and an old
\* fiber of different types, the new fiber is tagged PLACEMENT and has no
\* alternate, and no host node before its own unit of work; the old fiber is
\* tagged DELETION and is in the deletions list.
C5_DifferentTypeIsPlacement ==
    \A pk \in Met :
        ElementAt(pk).type # fibers[OldAt(pk)].type =>
            /\ fibers[NewAt(pk)].type = ElementAt(pk).type
            /\ fibers[NewAt(pk)].effectTag = "PLACEMENT"
            /\ fibers[NewAt(pk)].alternate = Null
            /\ NewAt(pk) \notin processed => fibers[NewAt(pk)].dom = Null
            /\ fibers[OldAt(pk)].effectTag = "DELETION"
            /\ OldAt(pk) \in Range(deletions)

C5_Witness ==
    \E pk \in Met :
        /\ ElementAt(pk).type # fibers[OldAt(pk)].type
        /\ NewAt(pk) \notin processed

\* The host fibers of the cycle's tree whose children were reconciled with the
\* old children preceded by one new element, all of one type.
Inserted ==
    {p \in TreeOf(fibers, ActiveRoot) :
        /\ ~isFunctionComponent(fibers[p].type)
        /\ fibers[p].alternate # Null
        /\ ChildSeq(fibers, p) # <<>>
        /\ LET old == ChildSeq(fibers, fibers[p].alternate)
               els == fibers[p].children
           IN /\ Len(old) >= 1
              /\ Len(els) = Len(old) + 1
              /\ \A k \in DOMAIN els : els[k].type = els[1].type
              /\ \A k \in DOMAIN old : fibers[old[k]].type = els[1].type
              /\ \A k \in DOMAIN old : els[k + 1].props = fibers[old[k]].props}

\* C6 as stated: after such an insertion every sibling that follows the
\* inserted one is tagged UPDATE, against another fiber than the one that stood
\* for it before.
C6_FollowersAllUpdate ==
    \A p \in Inserted :
        LET new == ChildSeq(fibers, p)
            old == ChildSeq(fibers, fibers[p].alternate)
        IN \A k \in 2..Len(new) :
              /\ fibers[new[k]].effectTag = "UPDATE"
              /\ fibers[new[k]].alternate # old[k - 1]

\* C6, amended: after such an insertion before m old siblings, the fibers at
\* the first m indices (the inserted one and the siblings after it but the
\* last) are tagged UPDATE against the old fiber at the same index, which for a
\* following sibling is the old fiber of the element after it; the last sibling
\* meets no old fiber and is tagged PLACEMENT, without alternate; no fiber is
\* put on the deletions list.
C6_ShiftedByOne ==
    \A p \in Inserted :
        LET new == ChildSeq(fibers, p)
            old == ChildSeq(fibers, fibers[p].alternate)
        IN /\ Len(new) = Len(old) + 1
           /\ \A k \in DOMAIN old :
                /\ fibers[new[k]].effectTag = "UPDATE"
                /\ fibers[new[k]].alternate = old[k]
                /\ k > 1 => fibers[new[k]].props = fibers[old[k - 1]].props
                /\ old[k] \notin Range(deletions)
           /\ fibers[new[Len(new)]].effectTag = "PLACEMENT"
           /\ fibers[new[Len(new)]].alternate = Null

\* An element has been inserted before two old siblings.
C6_Witness ==
    \E p \in Inserted : Len(ChildSeq(fibers, fibers[p].alternate)) >= 2

\* The host node a deletion of fiber f removes: its own, or that of the first
\* fiber down its child chain that has one.
RECURSIVE FirstHost(_)
FirstHost(f) ==
    IF f = Null THEN Null
    ELSE IF fibers[f].dom # Null THEN fibers[f].dom
    ELSE FirstHost(fibers[f].child)

\* Host node n is in the tree under the container.
RECURSIVE Attached(_)
Attached(n) ==
    \/ n = Container
    \/ n # Null /\ nodes[n].parent # Null /\ Attached(nodes[n].parent)

\* C7: after a commit, the host node rendered beneath a deleted
\* render-function fiber is no longer attached.
C7_DeletedComponentDetached ==
    Committed =>
        \A k \in DOMAIN deletions :
            fibers[deletions[k]].dom = Null => ~Attached(FirstHost(deletions[k]))

\* C8: a commit runs only when no unit of work is left and a work-in-progress
\* root exists, and every fiber of a committed tree has been processed by
\* performUnitOfWork.
C8_OnlyCompleteTreesCommitted ==
    /\ last.commit # "none" => nextUnitOfWork = Null
    /\ Committed => wipRoot = Null /\ currentRoot # Null
    /\ TreeOf(fibers, currentRoot) \subseteq processed

\* A render was abandoned with fibers not yet processed, and a later one has
\* been committed.
C8_Witness ==
    /\ Committed
    /\ \E f \in DOMAIN fibers : f \notin processed
    /\ Cardinality(TreeOf(fibers, currentRoot)) >= 5

\* C9: a call of setState leaves a fresh work-in-progress root with the
\* alternate, the host node and the props of the committed root, which is the
\* next unit of work, and an empty deletions list.
C9_SetStateStartsCycle ==
    last.act \in {"setState", "setStateThrew"} =>
        /\ wipRoot = Len(fibers)
        /\ currentRoot # Null
        /\ fibers[wipRoot].alternate = currentRoot
        /\ fibers[wipRoot].dom = fibers[currentRoot].dom
        /\ fibers[wipRoot].props = fibers[currentRoot].props
        /\ fibers[wipRoot].children = fibers[currentRoot].children
        /\ wipRoot \notin processed
        /\ nextUnitOfWork = wipRoot
        /\ deletions = <<>>

InsertsOrUpdates(o) ==
    /\ o.phase = "commit"
    /\ o.op \in {"appendChild", "set", "addEventListener", "removeEventListener"}

\* C10: in a commit, the host node of every fiber of the deletions list is
\* removed before any node is appended and before any property or listener is
\* changed.
C10_DeletionsFirst ==
    last.commit # "none" =>
        \A k \in DOMAIN deletions :
            \E j \in DOMAIN ops :
                /\ ops[j].phase = "commit"
                /\ ops[j].op = "removeChild"
                /\ ops[j].b = FirstHost(deletions[k])
                /\ \A i \in DOMAIN ops : InsertsOrUpdates(ops[i]) => j < i

\* The removals, done or refused, a commit has asked of the host for node n.
RemovalsOf(n) ==
    {j \in DOMAIN ops : /\ ops[j].phase = "commit"
                        /\ ops[j].op \in {"removeChild", "removeChildThrew"}
                        /\ ops[j].b = n}

\* C11: in a commit, every fiber of the deletions list causes exactly one
\* removeChild for its host node, and removeChild is never called for a node
\* that is not a child of the given parent.
C11_OneRemovalPerDeletion ==
    last.commit # "none" =>
        /\ \A j \in DOMAIN ops : ops[j].op # "removeChildThrew"
        /\ \A k \in DOMAIN deletions :
              Cardinality(RemovalsOf(FirstHost(deletions[k]))) = 1

\* C12: a step that commits makes the work-in-progress root the
\* current root, leaves no work-in-progress root, and leaves the deletions
\* list empty.
C12_DeletionsCleared ==
    [][last'.commit = "done" =>
          /\ wipRoot # Null
          /\ currentRoot' = wipRoot
          /\ wipRoot' = Null
          /\ deletions' = <<>>]_vars

\* The units a slice may perform when it starts with `time` left.
UnitsAllowed(time) == IF time < 1 THEN 1 ELSE time

\* C13 as stated: a slice performs a unit only while time remains, so no more
\* units than the time it started with; it stops with units left only when
\* the time is used up, and it invokes the commit when no unit is left.
C13_UnitsOnlyWhileTimeRemains ==
    last.act = "workLoop" =>
        /\ last.units <= last.time
        /\ nextUnitOfWork # Null => last.units = last.time /\ last.commit = "none"
        /\ nextUnitOfWork = Null => last.commit # "none"

\* C13, amended: a slice that finds a next unit performs it whatever time is
\* left, starting from the pointer the last slice left; it performs a further
\* unit only while a next unit exists and at least 1 of time remains after the
\* unit before; it stops with units left only when the time is used up, and it
\* invokes the commit when no unit is left.
C13_FirstUnitThenWhileTimeRemains ==
    [][last'.act = "workLoop" =>
          /\ last'.units = Len(trace') - Len(trace)
          /\ nextUnitOfWork = Null => last'.units = 0
          /\ nextUnitOfWork # Null =>
                /\ last'.units >= 1
                /\ trace'[Len(trace) + 1] = nextUnitOfWork
          /\ last'.units <= UnitsAllowed(last'.time)
          /\ nextUnitOfWork' # Null =>
                /\ last'.units = UnitsAllowed(last'.time)
                /\ last'.commit = "none"
          /\ nextUnitOfWork' = Null => last'.commit # "none"]_vars

\* A slice that started with no time left has performed a unit, and units
\* are left for the next slice.
C13_Witness ==
    /\ last.act = "workLoop"
    /\ last.time = 0
    /\ last.units = 1
    /\ nextUnitOfWork # Null

\* C14: with the host granting slices for ever, every render cycle that has
\* been started is followed by a commit that leaves no work-in-progress root
\* and no next unit of work.
C14_EventuallyCommitted ==
    (wipRoot # Null) ~> (wipRoot = Null /\ nextUnitOfWork = Null)

\* The fibers of the cycle's tree whose children have been reconciled.
Reconciled == TreeOf(fibers, ActiveRoot) \cap processed

\* The old sibling chain reconcileChildren walked for fiber p.
OldChildren(p) ==
    IF fibers[p].alternate = Null THEN <<>> ELSE ChildSeq(fibers, fibers[p].alternate)

\* Old [X, Y] met new [Y], X and Y of different types.
ShorterByFirst(p) ==
    /\ Len(OldChildren(p)) = 2
    /\ Len(ElementsOf(p)) = 1
    /\ fibers[OldChildren(p)[1]].type # fibers[OldChildren(p)[2]].type
    /\ ElementsOf(p)[1].type = fibers[OldChildren(p)[2]].type

\* C15: for an old chain of m fibers and n elements, reconcileChildren leaves
\* the parent with a chain of exactly n fibers, in the order of the elements,
\* and its loop goes on to index max(m, n): every old fiber beyond the n-th has
\* been met, with no element, and deleted.  For old [X, Y] and new [Y] the old X
\* is tagged DELETION, a PLACEMENT fiber for Y stands at index 0 and there is
\* no fiber at index 1.
C15_ChainFollowsElements ==
    \A p \in Reconciled :
        LET els == ElementsOf(p)
            new == ChildSeq(fibers, p)
            old == OldChildren(p)
        IN /\ Len(new) = Len(els)
           /\ \A k \in DOMAIN els :
                /\ fibers[new[k]].type = els[k].type
                /\ fibers[new[k]].props = els[k].props
                /\ fibers[new[k]].parent = p
           /\ \A k \in DOMAIN old :
                k > Len(els) => /\ fibers[old[k]].effectTag = "DELETION"
                                /\ old[k] \in Range(deletions)
           /\ ShorterByFirst(p) =>
                /\ fibers[old[1]].effectTag = "DELETION"
                /\ old[1] \in Range(deletions)
                /\ fibers[new[1]].effectTag = "PLACEMENT"
                /\ fibers[new[1]].alternate = Null
                /\ fibers[new[1]].sibling = Null

\* Old [X, Y] has met new [Y], and elsewhere a list has grown.
C15_Witness ==
    /\ \E p \in Reconciled : ShorterByFirst(p)
    /\ \E f \in DOMAIN fibers :
          /\ f \in processed
          /\ fibers[f].alternate # Null
          /\ Len(ChildSeq(fibers, f)) > Len(ChildSeq(fibers, fibers[f].alternate))
          /\ Len(ChildSeq(fibers, fibers[f].alternate)) >= 1

\* A description of one host element holding one text child.
OneText(element) ==
    /\ ~isFunctionComponent(element.type)
    /\ Len(element.children) = 1
    /\ element.children[1].type = "TEXT_ELEMENT"

\* render() of a host element with one text child has been committed over a
\* tree that differs from it in the text only.
TextChanged ==
    /\ Committed
    /\ cycle.kind = "render"
    /\ fibers[currentRoot].alternate # Null
    /\ LET new == fibers[currentRoot].children[1]
           old == fibers[fibers[currentRoot].alternate].children[1]
       IN /\ OneText(new) /\ OneText(old)
          /\ new.type = old.type /\ new.props = old.props
          /\ new.children[1].props.nodeValue # old.children[1].props.nodeValue

\* The fiber of the text child in the committed tree.
TextFiber == fibers[fibers[currentRoot].child].child

\* C16: after the text of the one text child has changed, the cycle has no
\* PLACEMENT and no DELETION, and its only host operation is the write of the
\* new text to the node that holds the text, at the commit.
C16_OnlyTextWritten ==
    TextChanged =>
        /\ EffectTags \subseteq {"UPDATE"}
        /\ deletions = <<>>
        /\ ops = <<[op |-> "set", phase |-> "commit", a |-> fibers[TextFiber].dom,
                    b |-> Null, key |-> "nodeValue",
                    val |-> fibers[TextFiber].props.nodeValue]>>
        /\ fibers[TextFiber].dom = fibers[fibers[TextFiber].alternate].dom
        /\ nodes[fibers[TextFiber].dom].attrs.nodeValue = fibers[TextFiber].props.nodeValue

\* "A" has been rendered and committed, then "B".
C16_Witness ==
    /\ TextChanged
    /\ fibers[currentRoot].children = <<ElemB>>
    /\ fibers[fibers[currentRoot].alternate].children = <<ElemA>>

\* C17: no render-function fiber has a host node; every host fiber that
\* performUnitOfWork has processed has one, of its own type, and the host
\* fibers of the committed tree have host nodes of their own.
C17_HostHandles ==
    /\ \A f \in DOMAIN fibers :
          IF isFunctionComponent(fibers[f].type)
          THEN fibers[f].dom = Null
          ELSE f \in processed =>
                  /\ fibers[f].dom \in DOMAIN nodes
                  /\ fibers[f].parent # Null => nodes[fibers[f].dom].tag = fibers[f].type
                  /\ fibers[f].parent = Null => fibers[f].dom = Container
    /\ \A f, g \in TreeOf(fibers, currentRoot) :
          f # g /\ fibers[f].dom # Null => fibers[f].dom # fibers[g].dom

\* A render function has been rendered again, beside a host fiber that took
\* over the host node of its alternate.
C17_Witness ==
    /\ \E f \in processed : isFunctionComponent(fibers[f].type) /\ fibers[f].alternate # Null
    /\ \E f \in processed :
          /\ fibers[f].parent # Null
          /\ fibers[f].alternate # Null
          /\ fibers[f].dom = fibers[fibers[f].alternate].dom
          /\ fibers[f].dom # Null

\* The index of fiber f among the children of its parent.
IndexOf(f) ==
    CHOOSE k \in DOMAIN ChildSeq(fibers, fibers[f].parent) :
        ChildSeq(fibers, fibers[f].parent)[k] = f

\* C18: the alternate of a fiber of the work-in-progress tree is a fiber of the
\* committed tree, of the same type and at the same index among its siblings,
\* and its parent is the alternate of the fiber's parent; the alternate of the
\* root is the committed root.
C18_Alternates ==
    wipRoot # Null =>
        \A f \in TreeOf(fibers, wipRoot) :
            LET alt == fibers[f].alternate
            IN alt # Null =>
                 /\ alt \in TreeOf(fibers, currentRoot)
                 /\ fibers[alt].type = fibers[f].type
                 /\ IF f = wipRoot THEN alt = currentRoot
                    ELSE /\ fibers[alt].parent = fibers[fibers[f].parent].alternate
                         /\ IndexOf(alt) = IndexOf(f)

\* A render started while an earlier one was in progress has reconciled a
\* second child with its alternate.
C18_Witness ==
    /\ wipRoot # Null
    /\ \E g \in DOMAIN fibers : g > currentRoot /\ g < wipRoot /\ g \notin processed
    /\ \E f \in TreeOf(fibers, wipRoot) :
          /\ f # wipRoot
          /\ fibers[f].alternate # Null
          /\ IndexOf(f) = 2

\* The fibers under f and its later siblings in depth-first pre-order: a fiber
\* before its children, the children in sibling order.
RECURSIVE PreOrder(_, _)
PreOrder(fs, f) ==
    IF f = Null THEN <<>>
    ELSE <<f>> \o PreOrder(fs, fs[f].child) \o PreOrder(fs, fs[f].sibling)

\* The tree of the cycle, as far as it is built, in pre-order.
CycleOrder == IF ActiveRoot = Null THEN <<>>
              ELSE <<ActiveRoot>> \o PreOrder(fibers, fibers[ActiveRoot].child)

\* C19: the fibers a render cycle has processed so far are, in the order they
\* were processed, the first fibers of its tree in pre-order, each once; the
\* next unit of work is the fiber that follows them in pre-order, and there is
\* none exactly when the whole tree has been processed.
C19_PreOrderTraversal ==
    cycle.kind # "none" =>
        /\ Len(trace) <= Len(CycleOrder)
        /\ trace = SubSeq(CycleOrder, 1, Len(trace))
        /\ Cardinality(Range(trace)) = Len(trace)
        /\ wipRoot # Null =>
              nextUnitOfWork = IF Len(trace) < Len(CycleOrder)
                               THEN CycleOrder[Len(trace) + 1] ELSE Null

\* A whole tree has been traversed, and once the traversal climbed from a
\* fiber without child or sibling to the sibling of an ancestor.
C19_Witness ==
    /\ Committed
    /\ Len(trace) >= 5
    /\ \E k \in 1..(Len(trace) - 1) :
          /\ fibers[trace[k]].child = Null
          /\ fibers[trace[k]].sibling = Null
          /\ fibers[trace[k + 1]].parent # fibers[trace[k]].parent

\* Host node n is in the tree under the container of the host nodes ns.
RECURSIVE AttachedIn(_, _)
AttachedIn(ns, n) ==
    \/ n = Container
    \/ n # Null /\ ns[n].parent # Null /\ AttachedIn(ns, ns[n].parent)

\* The attached host tree: the child lists, properties and listeners of the
\* nodes reachable from the container.
AttachedTree(ns) == [n \in {m \in DOMAIN ns : AttachedIn(ns, m)} |-> ns[n]]

\* The host operations of the units of work of the cycle touch only host
\* nodes created in the cycle, and neither append nor remove a node.
RenderOpsOnNewNodes(os) ==
    \A k \in DOMAIN os :
        os[k].phase = "render" =>
            /\ os[k].op \in {"create", "set", "addEventListener"}
            /\ \E j \in 1..k : os[j].op = "create" /\ os[j].a = os[k].a

\* C20: the attached host tree changes only in a step of workLoop that runs the
\* commit; the units of work, render() and setState leave it as it is, and
\* what the units write goes to nodes that are not attached before the commit;
\* a cycle has one commit step, which ends it.
C20_HostChangesOnlyAtCommit ==
    [][/\ AttachedTree(nodes') # AttachedTree(nodes) =>
             last'.act = "workLoop" /\ last'.commit # "none"
       /\ RenderOpsOnNewNodes(ops')
       /\ \A k \in DOMAIN ops' :
             ops'[k].phase = "render" /\ last'.commit = "none" =>
                 ~AttachedIn(nodes', ops'[k].a)
       /\ last'.commit # "none" =>
             /\ wipRoot # Null
             /\ wipRoot' = Null \/ crashed']_vars

\* With a committed tree attached, a unit of work of the next cycle has
\* created a host node and written a property of it, and has not committed.
C20_Witness ==
    /\ currentRoot # Null
    /\ wipRoot # Null
    /\ last.act = "workLoop"
    /\ last.commit = "none"
    /\ \E k \in DOMAIN ops : ops[k].phase = "render" /\ ops[k].op = "set"

\* The effect tag reconcileChildren gave fiber f when it made it (lines
\* 288-307): UPDATE with an alternate, PLACEMENT without; the root has none.
OwnTag(f) ==
    IF fibers[f].parent = Null THEN "undefined"
    ELSE IF fibers[f].alternate # Null THEN "UPDATE" ELSE "PLACEMENT"

\* The fibers of the committed tree that carry a tag written by the
\* reconciliation of a render cycle that was superseded.
StaleTagged ==
    {f \in TreeOf(fibers, currentRoot) : fibers[f].effectTag # OwnTag(f)}

\* The heap as it would be had the superseded cycles performed no unit of
\* work: what their units left behind and a later cycle can reach are the
\* tags on the fibers of the committed tree.
CleanHeap ==
    [Heap EXCEPT !.fibers = [f \in DOMAIN fibers |->
                                IF f \in StaleTagged
                                THEN [fibers[f] EXCEPT !.effectTag = OwnTag(f)]
                                ELSE fibers[f]]]

\* All the units of a render cycle, whatever the slices.
RECURSIVE RunToEnd(_)
RunToEnd(r) ==
    IF r.next = Null THEN r ELSE RunToEnd(performUnitOfWork(r.heap, r.next))

\* The heap after the cycle of root `root`, started on heap h, has run all its
\* units and its commit.
AfterCycle(h, root) ==
    CommitIfDone(RunToEnd([heap |-> h, next |-> root]), root).heap

\* What a commit shows: the attached host tree, the hook states of the tree,
\* and whether the commit threw.
Outcome(h, root) ==
    [host |-> AttachedTree(h.nodes),
     hooks |-> [f \in TreeOf(h.fibers, root) |->
                   [i \in DOMAIN h.fibers[f].hooks |-> h.fibers[f].hooks[i].state]],
     threw |-> h.threw]

\* C21: when a render cycle starts, the host tree and the hook states its
\* commit will leave are those it would leave had the cycles superseded since
\* the last commit performed no unit of work.
C21_SupersededLeavesNoTrace ==
    (last.act \in {"render", "setState"} /\ currentRoot # Null) =>
        Outcome(AfterCycle(Heap, wipRoot), wipRoot)
            = Outcome(AfterCycle(CleanHeap, wipRoot), wipRoot)

\* The update functions enqueued on slot i before fiber f was rendered, oldest
\* first: the queues of the fibers f continues, down its chain of alternates.
RECURSIVE Enqueued(_, _)
Enqueued(f, i) ==
    IF fibers[f].alternate = Null THEN <<>>
    ELSE Enqueued(fibers[f].alternate, i) \o fibers[fibers[f].alternate].hooks[i].queue

\* C22: as long as setState is called only through the closures of the
\* committed render, the state of every slot of a rendered fiber is the
\* initial value folded once through every update enqueued on the slot before,
\* in the order of the calls, and at a commit a slot of the committed tree has
\* an empty queue: what was enqueued is in its state and will not be applied
\* again.
C22_EachUpdateOnce ==
    ~stray =>
        /\ \A f \in Rendered :
              \A i \in DOMAIN fibers[f].hooks :
                  fibers[f].hooks[i].state
                      = FoldInOrder(Enqueued(f, i), HookInitials(fibers[f].type)[i])
        /\ Committed =>
              \A f \in TreeOf(fibers, currentRoot) :
                  \A i \in DOMAIN fibers[f].hooks : fibers[f].hooks[i].queue = <<>>

\* Two updates were enqueued through the committed closures, the second while
\* the render started by the first was in progress; that render, superseded,
\* had folded the first only, and the commit shows both.
C22_Witness ==
    /\ ~stray
    /\ Committed
    /\ \E f \in TreeOf(fibers, currentRoot) :
          /\ isFunctionComponent(fibers[f].type)
          /\ fibers[f].alternate # Null
          /\ Len(fibers[fibers[f].alternate].hooks[1].queue) = 2
          /\ \E g \in processed :
                /\ g # f
                /\ fibers[g].alternate = fibers[f].alternate
                /\ fibers[g].hooks[1].state # fibers[f].hooks[1].state

====
